---- MODULE Spec2Model ----
(***************************************************************************)
(* Model of express-api-assignment/server.js: an Express application that  *)
(* serves CRUD, listing, search and statistics over the in-memory array    *)
(* `products`.  One action handles one HTTP request from body parsing to   *)
(* the response.                                                            *)
(*                                                                         *)
(* JavaScript strings that the code trims, lower-cases, searches or parses *)
(* are sequences of one-character strings.  Identifiers, HTTP methods and  *)
(* path segments, which the code only compares with ===, are TLA+ strings. *)
(* Prices are integers; averagePrice is carried in hundredths.             *)
(***************************************************************************)
EXTENDS Integers, Sequences, FiniteSets, TLC

VARIABLES products, uuidCount, req, resp

vars == <<products, uuidCount, req, resp>>

(***************************************************************************)
(* Bounds of the model.                                                    *)
(***************************************************************************)
\* Number of identifiers uuidv4() may hand out in one behaviour.
MaxCreates == 2

(***************************************************************************)
(* JavaScript values.                                                      *)
(***************************************************************************)
JUndef == [t |-> "undefined", s |-> <<>>, n |-> 0, b |-> FALSE]

JNull == [t |-> "null", s |-> <<>>, n |-> 0, b |-> FALSE]

JStr(chars) == [t |-> "string", s |-> chars, n |-> 0, b |-> FALSE]

JNum(k) == [t |-> "number", s |-> <<>>, n |-> k, b |-> FALSE]

JBool(v) == [t |-> "boolean", s |-> <<>>, n |-> 0, b |-> v]

\* typeof v
TypeOf(v) == IF v.t = "null" THEN "object" ELSE v.t

\* ToBoolean(v), as applied by `!v` and `v || d`
Truthy(v) ==
    CASE v.t = "string" -> Len(v.s) > 0
      [] v.t = "number" -> v.n # 0
      [] v.t = "boolean" -> v.b
      [] OTHER -> FALSE

WhiteSpace == {" ", "\t", "\n"}

UpperChars ==
    <<"A","B","C","D","E","F","G","H","I","J","K","L","M",
      "N","O","P","Q","R","S","T","U","V","W","X","Y","Z">>

LowerChars ==
    <<"a","b","c","d","e","f","g","h","i","j","k","l","m",
      "n","o","p","q","r","s","t","u","v","w","x","y","z">>

DigitChars == <<"0","1","2","3","4","5","6","7","8","9">>

RECURSIVE TrimStart(_)
TrimStart(chars) ==
    IF chars # <<>> /\ Head(chars) \in WhiteSpace
    THEN TrimStart(Tail(chars))
    ELSE chars

RECURSIVE TrimEnd(_)
TrimEnd(chars) ==
    IF chars # <<>> /\ chars[Len(chars)] \in WhiteSpace
    THEN TrimEnd(SubSeq(chars, 1, Len(chars) - 1))
    ELSE chars

\* String.prototype.trim
Trim(chars) == TrimEnd(TrimStart(chars))

LowerChar(c) ==
    IF \E i \in 1..Len(UpperChars) : UpperChars[i] = c
    THEN LowerChars[CHOOSE i \in 1..Len(UpperChars) : UpperChars[i] = c]
    ELSE c

\* String.prototype.toLowerCase
ToLowerCase(chars) == [i \in 1..Len(chars) |-> LowerChar(chars[i])]

\* String.prototype.includes
Includes(chars, sub) ==
    \E i \in 0..(Len(chars) - Len(sub)) : SubSeq(chars, i + 1, i + Len(sub)) = sub

RECURSIVE StringOf(_)
\* The TLA+ string spelled by a sequence of characters
StringOf(chars) == IF chars = <<>> THEN "" ELSE Head(chars) \o StringOf(Tail(chars))

IsDigit(c) == \E i \in 1..Len(DigitChars) : DigitChars[i] = c

DigitVal(c) == (CHOOSE i \in 1..Len(DigitChars) : DigitChars[i] = c) - 1

RECURSIVE DigitPrefix(_, _)
\* Value of the longest prefix of decimal digits of chars, continuing acc;
\* seen |-> FALSE when that prefix is empty.
DigitPrefix(chars, acc) ==
    IF chars # <<>> /\ IsDigit(Head(chars))
    THEN DigitPrefix(Tail(chars), [seen |-> TRUE, n |-> acc.n * 10 + DigitVal(Head(chars))])
    ELSE acc

\* parseInt(v): leading white space is skipped, then an optional sign, then
\* decimal digits; anything else (undefined included) gives NaN.
ParseInt(v) ==
    IF v.t # "string" THEN [nan |-> TRUE, n |-> 0]
    ELSE LET body == TrimStart(v.s)
             neg == body # <<>> /\ Head(body) = "-"
             signed == body # <<>> /\ Head(body) \in {"-", "+"}
             d == DigitPrefix(IF signed THEN Tail(body) ELSE body,
                              [seen |-> FALSE, n |-> 0])
         IN IF ~d.seen THEN [nan |-> TRUE, n |-> 0]
            ELSE [nan |-> FALSE, n |-> IF neg THEN 0 - d.n ELSE d.n]

\* parseInt(v) || dflt
ParseIntOr(v, dflt) ==
    LET p == ParseInt(v) IN IF p.nan \/ p.n = 0 THEN dflt ELSE p.n

\* Array.prototype.slice(start, end)
Slice(arr, start, end) ==
    LET len == Len(arr)
        from == IF start < 0 THEN (IF len + start > 0 THEN len + start ELSE 0)
                ELSE (IF start < len THEN start ELSE len)
        to == IF end < 0 THEN (IF len + end > 0 THEN len + end ELSE 0)
              ELSE (IF end < len THEN end ELSE len)
    IN SubSeq(arr, from + 1, to)

\* products.findIndex(p => p.id === id), 1-based; 0 stands for -1
FindIndex(store, id) ==
    IF \E i \in 1..Len(store) : store[i].id = id
    THEN CHOOSE i \in 1..Len(store) :
             store[i].id = id /\ \A j \in 1..(i - 1) : store[j].id # id
    ELSE 0

\* Array.prototype.join
RECURSIVE Join(_, _)
Join(parts, sep) ==
    IF parts = <<>> THEN <<>>
    ELSE IF Len(parts) = 1 THEN parts
         ELSE <<Head(parts), sep>> \o Join(Tail(parts), sep)

\* Math.ceil(a / b) for a >= 0 and b # 0
CeilDiv(a, b) ==
    IF b > 0 THEN (a + b - 1) \div b ELSE 0 - (a \div (0 - b))

\* Math.round((total / count) * 100), i.e. the rounded average in hundredths,
\* for total >= 0 and count > 0
RoundedHundredths(total, count) == (200 * total + count) \div (2 * count)

(***************************************************************************)
(* The store as the module leaves it after loading.                        *)
(***************************************************************************)
SeedProducts ==
    << [id |-> "1",
        name |-> JStr(<<"L","a","p","t","o","p">>),
        description |-> JStr(<<"H","i","g","h","-","p","e","r","f","o","r","m","a","n","c","e",
                               " ","l","a","p","t","o","p"," ","w","i","t","h"," ","1","6","G","B",
                               " ","R","A","M">>),
        price |-> JNum(1200),
        category |-> JStr(<<"e","l","e","c","t","r","o","n","i","c","s">>),
        inStock |-> JBool(TRUE)],
       [id |-> "2",
        name |-> JStr(<<"S","m","a","r","t","p","h","o","n","e">>),
        description |-> JStr(<<"L","a","t","e","s","t"," ","m","o","d","e","l"," ","w","i","t","h",
                               " ","1","2","8","G","B"," ","s","t","o","r","a","g","e">>),
        price |-> JNum(800),
        category |-> JStr(<<"e","l","e","c","t","r","o","n","i","c","s">>),
        inStock |-> JBool(TRUE)],
       [id |-> "3",
        name |-> JStr(<<"C","o","f","f","e","e"," ","M","a","k","e","r">>),
        description |-> JStr(<<"P","r","o","g","r","a","m","m","a","b","l","e"," ","c","o","f","f",
                               "e","e"," ","m","a","k","e","r"," ","w","i","t","h"," ","t","i","m",
                               "e","r">>),
        price |-> JNum(50),
        category |-> JStr(<<"k","i","t","c","h","e","n">>),
        inStock |-> JBool(FALSE)] >>

\* The k-th identifier uuidv4() hands out; no two calls return the same one.
Uuid(k) == "uuid-" \o ToString(k)

(***************************************************************************)
(* Error classes.                                                          *)
(***************************************************************************)
NotFoundError(message) ==
    [name |-> "NotFoundError", message |-> message, statusCode |-> 404]

ValidationError(message) ==
    [name |-> "ValidationError", message |-> message, statusCode |-> 400]

AuthenticationError(message) ==
    [name |-> "AuthenticationError", message |-> message, statusCode |-> 401]

\* What body-parser raises on a body that is not JSON.
BodySyntaxError ==
    [name |-> "SyntaxError", message |-> <<"Unexpected token">>, statusCode |-> 400]

\* `x.trim()` on a value that is not a string.
TypeError ==
    [name |-> "TypeError", message |-> <<"trim is not a function">>, statusCode |-> 0]

\* A middleware that calls next() without an error.
NoError == [name |-> "", message |-> <<>>, statusCode |-> 0]

ApiKey == <<"y","o","u","r","-","s","e","c","r","e","t","-","a","p","i","-","k","e","y">>

(***************************************************************************)
(* Middleware.                                                             *)
(***************************************************************************)
\* Faulty variant of authMiddleware: only a key that is present is compared,
\* so a request without the header passes.
authMiddleware_MissingKeyPasses(r) ==
    IF r.method = "GET" THEN NoError
    ELSE IF Truthy(r.apiKey) /\ r.apiKey # JStr(ApiKey)
         THEN AuthenticationError(<<"Invalid or missing API key">>)
         ELSE NoError

\* authMiddleware: the error handed to next(), NoError for plain next().
authMiddleware(r) ==
    IF r.method = "GET" THEN NoError
    ELSE IF ~Truthy(r.apiKey) \/ r.apiKey # JStr(ApiKey)
         THEN AuthenticationError(<<"Invalid or missing API key">>)
         ELSE NoError

NameInvalid(body) ==
    ~Truthy(body.name) \/ TypeOf(body.name) # "string" \/ Len(Trim(body.name.s)) = 0

DescriptionInvalid(body) ==
    \/ ~Truthy(body.description)
    \/ TypeOf(body.description) # "string"
    \/ Len(Trim(body.description.s)) = 0

PriceInvalid(body) ==
    body.price = JUndef \/ TypeOf(body.price) # "number" \/ body.price.n < 0

CategoryInvalid(body) ==
    \/ ~Truthy(body.category)
    \/ TypeOf(body.category) # "string"
    \/ Len(Trim(body.category.s)) = 0

InStockInvalid(body) ==
    body.inStock = JUndef \/ TypeOf(body.inStock) # "boolean"

\* Faulty variant of ValidationErrors: the checks stop at the first failure.
ValidationErrors_FirstOnly(body) ==
    IF NameInvalid(body)
    THEN <<"Name is required and must be a non-empty string">>
    ELSE IF DescriptionInvalid(body)
    THEN <<"Description is required and must be a non-empty string">>
    ELSE IF PriceInvalid(body)
    THEN <<"Price is required and must be a non-negative number">>
    ELSE IF CategoryInvalid(body)
    THEN <<"Category is required and must be a non-empty string">>
    ELSE IF InStockInvalid(body)
    THEN <<"inStock is required and must be a boolean">>
    ELSE <<>>

\* The array `errors` of validateProduct.
ValidationErrors(body) ==
    (IF NameInvalid(body)
     THEN <<"Name is required and must be a non-empty string">> ELSE <<>>)
    \o (IF DescriptionInvalid(body)
        THEN <<"Description is required and must be a non-empty string">> ELSE <<>>)
    \o (IF PriceInvalid(body)
        THEN <<"Price is required and must be a non-negative number">> ELSE <<>>)
    \o (IF CategoryInvalid(body)
        THEN <<"Category is required and must be a non-empty string">> ELSE <<>>)
    \o (IF InStockInvalid(body)
        THEN <<"inStock is required and must be a boolean">> ELSE <<>>)

\* validateProduct: the error handed to next(), NoError for plain next().
validateProduct(r) ==
    LET errors == ValidationErrors(r.body)
    IN IF Len(errors) > 0 THEN ValidationError(Join(errors, ", ")) ELSE NoError

(***************************************************************************)
(* The global error-handling middleware and the catch-all route.           *)
(***************************************************************************)
ErrorHandler(err) ==
    IF err.name \in {"ValidationError", "NotFoundError", "AuthenticationError"}
    THEN [status |-> err.statusCode,
          body |-> [error |-> err.name, message |-> err.message,
                    statusCode |-> err.statusCode]]
    ELSE IF err.name = "SyntaxError" /\ err.statusCode = 400
         THEN [status |-> 400,
               body |-> [error |-> "Invalid JSON",
                         message |-> <<"Request body contains invalid JSON">>,
                         statusCode |-> 400]]
         ELSE [status |-> 500,
               body |-> [error |-> "Internal Server Error",
                         message |-> <<"Something went wrong on the server">>,
                         statusCode |-> 500]]

\* The catch-all app.use('*') behind every route
NotFoundRoute(r) ==
    [status |-> 404,
     body |-> [error |-> "Not Found",
               message |-> <<"Route ", r.method, " ">> \o r.path \o <<" not found">>,
               statusCode |-> 404]]

\* The outcome of one request: the store, the uuid counter and the response.
Done(store, count, response) ==
    [products |-> store, uuidCount |-> count, resp |-> response]

\* An error passed to next() or thrown inside asyncHandler.
Raise(store, count, err) == Done(store, count, ErrorHandler(err))

(***************************************************************************)
(* Route handlers.                                                         *)
(***************************************************************************)
\* GET /
RootHandler(store, count, r) ==
    Done(store, count,
         [status |-> 200, body |-> [message |-> "Welcome to the Product API!"]])

\* The category filter of GET /api/products
CategoryFilter(store, query) ==
    IF Truthy(query.category)
    THEN SelectSeq(store, LAMBDA p :
             ToLowerCase(p.category.s) = ToLowerCase(query.category.s))
    ELSE store

\* The inStock filter of GET /api/products
InStockFilter(store, query) ==
    IF query.inStock # JUndef
    THEN LET inStockFilter == JBool(query.inStock = JStr(<<"t","r","u","e">>))
         IN SelectSeq(store, LAMBDA p : p.inStock = inStockFilter)
    ELSE store

\* The pagination of GET /api/products over the filtered products
Paginate(filteredProducts, query) ==
    LET page == ParseIntOr(query.page, 1)
        limit == ParseIntOr(query.limit, 10)
        startIndex == (page - 1) * limit
        endIndex == page * limit
    IN [products |-> Slice(filteredProducts, startIndex, endIndex),
        pagination |-> [currentPage |-> page,
                        totalPages |-> CeilDiv(Len(filteredProducts), limit),
                        totalProducts |-> Len(filteredProducts),
                        productsPerPage |-> limit]]

\* GET /api/products
ListHandler(store, count, r) ==
    LET filteredProducts == InStockFilter(CategoryFilter(store, r.query), r.query)
    IN Done(store, count, [status |-> 200, body |-> Paginate(filteredProducts, r.query)])

\* GET /api/products/search
SearchHandler(store, count, r) ==
    LET q == r.query.q
    IN IF ~Truthy(q)
       THEN Raise(store, count,
                  ValidationError(<<"Search query parameter \"q\" is required">>))
       ELSE LET searchResults ==
                    SelectSeq(store, LAMBDA p :
                        \/ Includes(ToLowerCase(p.name.s), ToLowerCase(q.s))
                        \/ Includes(ToLowerCase(p.description.s), ToLowerCase(q.s)))
            IN Done(store, count,
                    [status |-> 200,
                     body |-> [query |-> q, results |-> searchResults,
                               count |-> Len(searchResults)]])

\* Property names every object literal inherits from Object.prototype.  Only
\* the all-lower-case ones are listed: stored categories are lower-cased.
ObjectPrototypeKeys ==
    { <<"c","o","n","s","t","r","u","c","t","o","r">>,
      <<"_","_","p","r","o","t","o","_","_">> }

\* obj[key] || 0, for an object literal obj with own properties `own`:
\* an inherited property is a truthy function or object.
GetOrZero(own, key) ==
    IF key \in DOMAIN own THEN (IF Truthy(own[key]) THEN own[key] ELSE JNum(0))
    ELSE IF key \in ObjectPrototypeKeys
         THEN [t |-> "object", s |-> <<"[inherited]">>, n |-> 0, b |-> FALSE]
         ELSE JNum(0)

\* v + 1: numeric addition for a number, string concatenation otherwise
PlusOne(v) == IF v.t = "number" THEN JNum(v.n + 1) ELSE JStr(v.s \o <<"1">>)

\* obj[key] = v: the inherited __proto__ setter ignores a non-object value
SetProperty(own, key, v) ==
    IF key = <<"_","_","p","r","o","t","o","_","_">> THEN own
    ELSE [k \in (DOMAIN own) \cup {key} |-> IF k = key THEN v ELSE own[k]]

RECURSIVE CategoryCounts(_, _)
\* The forEach loop that fills stats.categoryCounts, starting from `own`.
CategoryCounts(store, own) ==
    IF store = <<>> THEN own
    ELSE LET key == Head(store).category.s
         IN CategoryCounts(Tail(store),
                           SetProperty(own, key, PlusOne(GetOrZero(own, key))))

RECURSIVE SumPrices(_)
SumPrices(store) ==
    IF store = <<>> THEN 0 ELSE Head(store).price.n + SumPrices(Tail(store))

MinPrice(store) ==
    CHOOSE m \in {store[i].price.n : i \in 1..Len(store)} :
        \A i \in 1..Len(store) : m <= store[i].price.n

MaxPrice(store) ==
    CHOOSE m \in {store[i].price.n : i \in 1..Len(store)} :
        \A i \in 1..Len(store) : m >= store[i].price.n

\* The object `stats` of GET /api/products/stats
Stats(store) ==
    [totalProducts |-> Len(store),
     inStockCount |-> Len(SelectSeq(store, LAMBDA p : Truthy(p.inStock))),
     outOfStockCount |-> Len(SelectSeq(store, LAMBDA p : ~Truthy(p.inStock))),
     categoryCounts |-> CategoryCounts(store, <<>>),
     averagePrice |-> IF Len(store) > 0
                      THEN RoundedHundredths(SumPrices(store), Len(store)) ELSE 0,
     priceRange |-> IF Len(store) > 0
                    THEN [min |-> MinPrice(store), max |-> MaxPrice(store)]
                    ELSE [min |-> 0, max |-> 0]]

\* GET /api/products/stats
StatsHandler(store, count, r) ==
    Done(store, count, [status |-> 200, body |-> Stats(store)])

\* GET /api/products/:id
GetHandler(store, count, r) ==
    LET id == r.path[3]
        i == FindIndex(store, id)
    IN IF i = 0
       THEN Raise(store, count, NotFoundError(<<"Product with ID ", id, " not found">>))
       ELSE Done(store, count, [status |-> 200, body |-> store[i]])

\* Faulty variant of Sanitized: the category is lower-cased but not trimmed.
Sanitized_CategoryUntrimmed(id, body) ==
    [id |-> id,
     name |-> JStr(Trim(body.name.s)),
     description |-> JStr(Trim(body.description.s)),
     price |-> body.price,
     category |-> JStr(ToLowerCase(body.category.s)),
     inStock |-> body.inStock]

\* Faulty variant of Sanitized: an id in the body overrides the given one.
Sanitized_BodyIdWins(id, body) ==
    [id |-> IF body.id.t = "string" THEN StringOf(body.id.s) ELSE id,
     name |-> JStr(Trim(body.name.s)),
     description |-> JStr(Trim(body.description.s)),
     price |-> body.price,
     category |-> JStr(ToLowerCase(Trim(body.category.s))),
     inStock |-> body.inStock]

\* The object literal both POST and PUT build from req.body
Sanitized(id, body) ==
    [id |-> id,
     name |-> JStr(Trim(body.name.s)),
     description |-> JStr(Trim(body.description.s)),
     price |-> body.price,
     category |-> JStr(ToLowerCase(Trim(body.category.s))),
     inStock |-> body.inStock]

\* Whether building that literal throws: .trim() exists on strings only
TrimThrows(body) ==
    \E v \in {body.name, body.description, body.category} : v.t # "string"

\* Faulty variant of CreateHandler: the sanitized record is returned, but the
\* fields of req.body are stored as they came.
CreateHandler_StoresRawBody(store, count, r) ==
    LET newProduct ==
            [id |-> Uuid(count + 1),
             name |-> JStr(Trim(r.body.name.s)),
             description |-> JStr(Trim(r.body.description.s)),
             price |-> r.body.price,
             category |-> JStr(ToLowerCase(Trim(r.body.category.s))),
             inStock |-> r.body.inStock]
        stored == [newProduct EXCEPT !.name = r.body.name,
                                     !.description = r.body.description,
                                     !.category = r.body.category]
    IN Done(Append(store, stored), count + 1,
            [status |-> 201,
             body |-> [message |-> "Product created successfully",
                       product |-> newProduct]])

\* POST /api/products, after authMiddleware and validateProduct
CreateHandler(store, count, r) ==
    IF TrimThrows(r.body) THEN Raise(store, count + 1, TypeError)
    ELSE LET newProduct == Sanitized(Uuid(count + 1), r.body)
         IN Done(Append(store, newProduct), count + 1,
                 [status |-> 201,
                  body |-> [message |-> "Product created successfully",
                            product |-> newProduct]])

\* Faulty variant of UpdateHandler: the old record is removed and the updated
\* one pushed at the end.
UpdateHandler_MovesToEnd(store, count, r) ==
    LET id == r.path[3]
        productIndex ==
            IF \E i \in 1..Len(store) : store[i].id = id
            THEN CHOOSE i \in 1..Len(store) :
                     store[i].id = id /\ \A j \in 1..(i - 1) : store[j].id # id
            ELSE 0
        updatedProduct ==
            [id |-> id,
             name |-> JStr(Trim(r.body.name.s)),
             description |-> JStr(Trim(r.body.description.s)),
             price |-> r.body.price,
             category |-> JStr(ToLowerCase(Trim(r.body.category.s))),
             inStock |-> r.body.inStock]
    IN IF productIndex = 0
       THEN Raise(store, count, NotFoundError(<<"Product with ID ", id, " not found">>))
       ELSE Done(Append(SubSeq(store, 1, productIndex - 1)
                            \o SubSeq(store, productIndex + 1, Len(store)),
                        updatedProduct),
                 count,
                 [status |-> 200,
                  body |-> [message |-> "Product updated successfully",
                            product |-> updatedProduct]])

\* PUT /api/products/:id, after authMiddleware and validateProduct
UpdateHandler(store, count, r) ==
    LET id == r.path[3]
        productIndex == FindIndex(store, id)
    IN IF productIndex = 0
       THEN Raise(store, count, NotFoundError(<<"Product with ID ", id, " not found">>))
       ELSE IF TrimThrows(r.body) THEN Raise(store, count, TypeError)
            ELSE LET updatedProduct == Sanitized(id, r.body)
                 IN Done([store EXCEPT ![productIndex] = updatedProduct], count,
                         [status |-> 200,
                          body |-> [message |-> "Product updated successfully",
                                    product |-> updatedProduct]])

\* Faulty variant of DeleteHandler: slice(productIndex, 1) in place of
\* splice(productIndex, 1), which copies and removes nothing.
DeleteHandler_SliceNotSplice(store, count, r) ==
    LET id == r.path[3]
        productIndex ==
            IF \E i \in 1..Len(store) : store[i].id = id
            THEN CHOOSE i \in 1..Len(store) :
                     store[i].id = id /\ \A j \in 1..(i - 1) : store[j].id # id
            ELSE 0
    IN IF productIndex = 0
       THEN Raise(store, count, NotFoundError(<<"Product with ID ", id, " not found">>))
       ELSE Done(store, count,
                 [status |-> 200,
                  body |-> [message |-> "Product deleted successfully",
                            product |-> IF productIndex = 1 THEN store[1] ELSE JUndef]])

\* DELETE /api/products/:id, after authMiddleware
DeleteHandler(store, count, r) ==
    LET id == r.path[3]
        productIndex == FindIndex(store, id)
    IN IF productIndex = 0
       THEN Raise(store, count, NotFoundError(<<"Product with ID ", id, " not found">>))
       ELSE Done(SubSeq(store, 1, productIndex - 1)
                     \o SubSeq(store, productIndex + 1, Len(store)),
                 count,
                 [status |-> 200,
                  body |-> [message |-> "Product deleted successfully",
                            product |-> store[productIndex]]])

(***************************************************************************)
(* Routing: the first registered route whose method and path match.        *)
(***************************************************************************)
IsCollectionPath(path) == path = <<"api", "products">>

IsItemPath(path) == Len(path) = 3 /\ SubSeq(path, 1, 2) = <<"api", "products">>

Route(r) ==
    IF r.method = "GET" /\ r.path = <<>> THEN "root"
    ELSE IF r.method = "GET" /\ IsCollectionPath(r.path) THEN "list"
    ELSE IF r.method = "GET" /\ r.path = <<"api", "products", "search">> THEN "search"
    ELSE IF r.method = "GET" /\ r.path = <<"api", "products", "stats">> THEN "stats"
    ELSE IF r.method = "GET" /\ IsItemPath(r.path) THEN "get"
    ELSE IF r.method = "POST" /\ IsCollectionPath(r.path) THEN "create"
    ELSE IF r.method = "PUT" /\ IsItemPath(r.path) THEN "update"
    ELSE IF r.method = "DELETE" /\ IsItemPath(r.path) THEN "delete"
    ELSE "none"

\* POST /api/products: authMiddleware, validateProduct, handler
CreateRoute(store, count, r) ==
    IF authMiddleware(r) # NoError THEN Raise(store, count, authMiddleware(r))
    ELSE IF validateProduct(r) # NoError THEN Raise(store, count, validateProduct(r))
         ELSE CreateHandler(store, count, r)

\* Faulty variant of UpdateRoute: the record is looked up before the body is
\* validated.
UpdateRoute_LocateFirst(store, count, r) ==
    IF authMiddleware(r) # NoError THEN Raise(store, count, authMiddleware(r))
    ELSE IF \A i \in 1..Len(store) : store[i].id # r.path[3]
         THEN Raise(store, count,
                    NotFoundError(<<"Product with ID ", r.path[3], " not found">>))
         ELSE IF validateProduct(r) # NoError
              THEN Raise(store, count, validateProduct(r))
              ELSE UpdateHandler(store, count, r)

\* PUT /api/products/:id: authMiddleware, validateProduct, handler
UpdateRoute(store, count, r) ==
    IF authMiddleware(r) # NoError THEN Raise(store, count, authMiddleware(r))
    ELSE IF validateProduct(r) # NoError THEN Raise(store, count, validateProduct(r))
         ELSE UpdateHandler(store, count, r)

\* DELETE /api/products/:id: authMiddleware, handler
DeleteRoute(store, count, r) ==
    IF authMiddleware(r) # NoError THEN Raise(store, count, authMiddleware(r))
    ELSE DeleteHandler(store, count, r)

\* The whole application on one request: bodyParser.json() first, then the
\* matching route, then the catch-all.
HandleRequest(store, count, r) ==
    IF ~r.jsonOk THEN Raise(store, count, BodySyntaxError)
    ELSE CASE Route(r) = "root" -> RootHandler(store, count, r)
           [] Route(r) = "list" -> ListHandler(store, count, r)
           [] Route(r) = "search" -> SearchHandler(store, count, r)
           [] Route(r) = "stats" -> StatsHandler(store, count, r)
           [] Route(r) = "get" -> GetHandler(store, count, r)
           [] Route(r) = "create" -> CreateRoute(store, count, r)
           [] Route(r) = "update" -> UpdateRoute(store, count, r)
           [] Route(r) = "delete" -> DeleteRoute(store, count, r)
           [] OTHER -> Done(store, count, NotFoundRoute(r))

(***************************************************************************)
(* Requests the clients send.                                              *)
(***************************************************************************)
NoQuery ==
    [category |-> JUndef, inStock |-> JUndef, page |-> JUndef, limit |-> JUndef,
     q |-> JUndef]

NoBody ==
    [id |-> JUndef, name |-> JUndef, description |-> JUndef, price |-> JUndef,
     category |-> JUndef, inStock |-> JUndef]

Request(method, path, apiKey, query, jsonOk, body) ==
    [method |-> method, path |-> path, apiKey |-> apiKey, query |-> query,
     jsonOk |-> jsonOk, body |-> body]

GoodKey == JStr(ApiKey)

BadKeys == {JUndef, JStr(<<>>), JStr(<<"n","o","p","e">>)}

PenBody ==
    [id |-> JUndef,
     name |-> JStr(<<" ","P","e","n"," ">>),
     description |-> JStr(<<"I","n","k">>),
     price |-> JNum(0),
     category |-> JStr(<<" ","O","f","f","i","c","e","\t">>),
     inStock |-> JBool(TRUE)]

CupBody ==
    [id |-> JStr(<<"1">>),
     name |-> JStr(<<"C","u","p">>),
     description |-> JStr(<<"M","u","g","\n">>),
     price |-> JNum(7),
     category |-> JStr(<<"c","o","n","s","t","r","u","c","t","o","r">>),
     inStock |-> JBool(FALSE)]

ValidBodies == {PenBody, CupBody}

\* PenBody with every field named in `bad` replaced by a value breaking its rule
Spoiled(bad) ==
    [id |-> JUndef,
     name |-> IF "name" \in bad THEN JUndef ELSE PenBody.name,
     description |-> IF "description" \in bad THEN JStr(<<" ","\t">>)
                     ELSE PenBody.description,
     price |-> IF "price" \in bad THEN JNum(-1) ELSE PenBody.price,
     category |-> IF "category" \in bad THEN JNum(3) ELSE PenBody.category,
     inStock |-> IF "inStock" \in bad THEN JStr(<<"t","r","u","e">>)
                 ELSE PenBody.inStock]

Fields == {"name", "description", "price", "category", "inStock"}

\* Every combination of kept and broken rules
SpoiledBodies == {Spoiled(bad) : bad \in SUBSET Fields}

\* Further single-field violations
OddBodies ==
    {[PenBody EXCEPT !.name = v] : v \in {JStr(<<>>), JNull, JBool(TRUE), JNum(0)}}
    \cup {[PenBody EXCEPT !.price = v] : v \in {JUndef, JNull, JStr(<<"5">>)}}
    \cup {[PenBody EXCEPT !.inStock = v] : v \in {JUndef, JNull, JNum(1)}}
    \cup {[PenBody EXCEPT !.category = v] : v \in {JUndef, JStr(<<" ">>)}}
    \cup {NoBody}

Bodies == ValidBodies \cup SpoiledBodies \cup OddBodies

SeedIds == {"1", "2", "3"}

UuidIds == {Uuid(k) : k \in 1..MaxCreates}

PageValues ==
    {JUndef, JStr(<<"1">>), JStr(<<"2">>), JStr(<<"-","1">>), JStr(<<"p">>)}

LimitValues ==
    {JUndef, JStr(<<"2">>), JStr(<<"0">>), JStr(<<"-","2">>), JStr(<<" ","1","x">>)}

ListQueries ==
    {[NoQuery EXCEPT !.page = pg, !.limit = lm] : pg \in PageValues, lm \in LimitValues}
    \cup {[NoQuery EXCEPT !.category = c, !.inStock = st] :
            c \in {JUndef, JStr(<<"E","l","e","c","t","r","o","n","i","c","s">>),
                   JStr(<<"o","f","f","i","c","e">>)},
            st \in {JUndef, JStr(<<"t","r","u","e">>), JStr(<<"f","a","l","s","e">>)}}

SearchQueries ==
    {[NoQuery EXCEPT !.q = v] :
        v \in {JUndef, JStr(<<>>), JStr(<<"L","A","P","T","O","P">>), JStr(<<"i","n","k">>)}}

GetRequests ==
    {Request("GET", <<>>, JUndef, NoQuery, TRUE, NoBody)}
    \cup {Request("GET", <<"api", "products">>, JUndef, query, TRUE, NoBody) :
            query \in ListQueries}
    \cup {Request("GET", <<"api", "products", "search">>, JUndef, query, TRUE, NoBody) :
            query \in SearchQueries}
    \cup {Request("GET", <<"api", "products", id>>, key, NoQuery, TRUE, NoBody) :
            id \in {"stats", "1", "3", "nope"} \cup UuidIds,
            key \in {JUndef, JStr(<<"n","o","p","e">>)}}
    \cup {Request("GET", <<"api", "items">>, JUndef, NoQuery, TRUE, NoBody)}

PostRequests ==
    {Request("POST", <<"api", "products">>, GoodKey, NoQuery, TRUE, body) :
        body \in Bodies}
    \cup {Request("POST", <<"api", "products">>, key, NoQuery, TRUE, body) :
            key \in BadKeys, body \in {PenBody, Spoiled({"price"})}}

PutRequests ==
    {Request("PUT", <<"api", "products", id>>, GoodKey, NoQuery, TRUE, body) :
        id \in {"2", "nope", "search"} \cup UuidIds,
        body \in ValidBodies \cup {Spoiled({"name", "inStock"}), Spoiled({"price"})}}
    \cup {Request("PUT", <<"api", "products", id>>, key, NoQuery, TRUE, body) :
            id \in {"2", "nope"}, key \in BadKeys,
            body \in {CupBody, Spoiled({"category"})}}

DeleteRequests ==
    {Request("DELETE", <<"api", "products", id>>, GoodKey, NoQuery, TRUE, NoBody) :
        id \in SeedIds \cup UuidIds \cup {"nope"}}
    \cup {Request("DELETE", <<"api", "products", id>>, key, NoQuery, TRUE, NoBody) :
            id \in {"3", "nope"}, key \in BadKeys}

\* Mutating methods on paths no mutating route is registered for
StrayRequests ==
    {Request(method, path, key, NoQuery, TRUE, PenBody) :
        method \in {"POST", "PUT", "DELETE"},
        path \in {<<"api", "products", "1">>, <<"api", "products">>, <<"api", "items">>},
        key \in {GoodKey, JUndef}}

\* Requests whose body is not JSON
BrokenRequests ==
    {Request(method, path, key, NoQuery, FALSE, NoBody) :
        method \in {"POST", "PUT", "DELETE"},
        path \in {<<"api", "products", "2">>, <<"api", "products">>},
        key \in {GoodKey, JUndef}}

Requests ==
    GetRequests \cup PostRequests \cup PutRequests \cup DeleteRequests
    \cup StrayRequests \cup BrokenRequests

(***************************************************************************)
(* The state machine.                                                      *)
(***************************************************************************)
NoRequest == Request("", <<>>, JUndef, NoQuery, TRUE, NoBody)

NoResponse == [status |-> 0, body |-> [message |-> ""]]

Init ==
    /\ products = SeedProducts
    /\ uuidCount = 0
    /\ req = NoRequest
    /\ resp = NoResponse

\* Request r arrives while no other request is being served, and is served
\* to completion with outcome `out`.
Serve(r, out) ==
    /\ req = NoRequest
    /\ out.uuidCount <= MaxCreates
    /\ products' = out.products
    /\ uuidCount' = out.uuidCount
    /\ req' = r
    /\ resp' = out.resp

Parsed(route) == {r \in Requests : r.jsonOk /\ Route(r) = route}

InvalidJson ==
    \E r \in Requests :
        /\ ~r.jsonOk
        /\ Serve(r, Raise(products, uuidCount, BodySyntaxError))

Root == \E r \in Parsed("root") : Serve(r, RootHandler(products, uuidCount, r))

ListProducts == \E r \in Parsed("list") : Serve(r, ListHandler(products, uuidCount, r))

SearchProducts ==
    \E r \in Parsed("search") : Serve(r, SearchHandler(products, uuidCount, r))

ProductStats == \E r \in Parsed("stats") : Serve(r, StatsHandler(products, uuidCount, r))

GetProduct == \E r \in Parsed("get") : Serve(r, GetHandler(products, uuidCount, r))

CreateProduct ==
    \E r \in Parsed("create") : Serve(r, CreateRoute(products, uuidCount, r))

UpdateProduct ==
    \E r \in Parsed("update") : Serve(r, UpdateRoute(products, uuidCount, r))

DeleteProduct ==
    \E r \in Parsed("delete") : Serve(r, DeleteRoute(products, uuidCount, r))

UnknownRoute ==
    \E r \in Parsed("none") : Serve(r, Done(products, uuidCount, NotFoundRoute(r)))

\* The response has been sent; the request and response objects are dropped.
Finish ==
    /\ req # NoRequest
    /\ req' = NoRequest
    /\ resp' = NoResponse
    /\ UNCHANGED <<products, uuidCount>>

Next ==
    \/ Finish
    \/ InvalidJson
    \/ Root
    \/ ListProducts
    \/ SearchProducts
    \/ ProductStats
    \/ GetProduct
    \/ CreateProduct
    \/ UpdateProduct
    \/ DeleteProduct
    \/ UnknownRoute

Spec == Init /\ [][Next]_vars

(***************************************************************************)
(* Vocabulary of the properties.                                           *)
(***************************************************************************)
Mutating(r) == r.method \in {"POST", "PUT", "DELETE"}

\* The credential is absent or differs from the shared secret.
BadCredential(r) == r.apiKey.t # "string" \/ r.apiKey.s # ApiKey

\* r is addressed to POST /api/products or PUT/DELETE /api/products/:id.
OnMutatingRoute(r) ==
    \/ r.method = "POST" /\ r.path = <<"api", "products">>
    \/ /\ r.method \in {"PUT", "DELETE"}
       /\ Len(r.path) = 3
       /\ r.path[1] = "api"
       /\ r.path[2] = "products"

IsError(response, code, kind) ==
    /\ response.status = code
    /\ response.body.error = kind
    /\ response.body.statusCode = code

Ids(store) == [i \in 1..Len(store) |-> store[i].id]

HasId(store, id) == \E i \in 1..Len(store) : store[i].id = id

\* The rule of a text field: a string with a character that is not white space
TextRuleHolds(v) == v.t = "string" /\ \E i \in 1..Len(v.s) : v.s[i] \notin WhiteSpace

\* The fields of `body` whose rule is violated
Violated(body) ==
    {f \in Fields :
        \/ f = "name" /\ ~TextRuleHolds(body.name)
        \/ f = "description" /\ ~TextRuleHolds(body.description)
        \/ f = "category" /\ ~TextRuleHolds(body.category)
        \/ f = "price" /\ ~(body.price.t = "number" /\ body.price.n >= 0)
        \/ f = "inStock" /\ body.inStock.t # "boolean"}

RuleMessage(f) ==
    CASE f = "name" -> "Name is required and must be a non-empty string"
      [] f = "description" -> "Description is required and must be a non-empty string"
      [] f = "price" -> "Price is required and must be a non-negative number"
      [] f = "category" -> "Category is required and must be a non-empty string"
      [] f = "inStock" -> "inStock is required and must be a boolean"

\* t is s without its leading and trailing white space
IsTrimOf(t, s) ==
    /\ t # <<>>
    /\ t[1] \notin WhiteSpace
    /\ t[Len(t)] \notin WhiteSpace
    /\ \E i \in 1..Len(s) :
          /\ SubSeq(s, i, i + Len(t) - 1) = t
          /\ \A k \in 1..Len(s) : (k < i \/ k >= i + Len(t)) => s[k] \in WhiteSpace

\* t is s with every upper-case letter replaced by its lower-case letter
IsLowerOf(t, s) ==
    /\ Len(t) = Len(s)
    /\ \A k \in 1..Len(s) :
          IF \E m \in 1..26 : UpperChars[m] = s[k]
          THEN \E m \in 1..26 : UpperChars[m] = s[k] /\ LowerChars[m] = t[k]
          ELSE t[k] = s[k]

(***************************************************************************)
(* C1.  As claimed: every mutating request (POST, PUT or DELETE), whatever *)
(* its path, body or target id, whose credential is absent or wrong is     *)
(* answered 401 AuthenticationError and leaves the store as it was.  The   *)
(* body is read as a decoded one: requests with malformed JSON are left    *)
(* out.                                                                    *)
(***************************************************************************)
C1_AsClaimed ==
    [][(Mutating(req') /\ BadCredential(req') /\ req'.jsonOk)
          => (IsError(resp', 401, "AuthenticationError") /\ products' = products)]_vars

(***************************************************************************)
(* C1, amended.  A mutating request whose credential is absent or wrong    *)
(* leaves the store as it was; it is answered 401 AuthenticationError when *)
(* its body is well-formed JSON and it is addressed to POST /api/products  *)
(* or PUT/DELETE /api/products/:id, 400 "Invalid JSON" when its body is    *)
(* malformed, and 404 "Not Found" on any other path.                       *)
(***************************************************************************)
C1_BadCredentialRejected ==
    [][(Mutating(req') /\ BadCredential(req'))
          => /\ products' = products
             /\ IF ~req'.jsonOk THEN IsError(resp', 400, "Invalid JSON")
                ELSE IF OnMutatingRoute(req')
                     THEN IsError(resp', 401, "AuthenticationError")
                     ELSE IsError(resp', 404, "Not Found")]_vars

\* An update of a stored record with a valid body and no credential has been
\* refused.
C1_Witness ==
    /\ req.method = "PUT"
    /\ OnMutatingRoute(req)
    /\ req.apiKey = JUndef
    /\ req.body \in ValidBodies
    /\ HasId(products, req.path[3])
    /\ resp.status = 401

(***************************************************************************)
(* C2.  Every record of the store satisfies the validation rules in        *)
(* sanitized form: name, description and category are non-empty strings    *)
(* without leading or trailing white space, category has no upper-case     *)
(* letter, price is a number >= 0 and inStock is a boolean.                *)
(***************************************************************************)
CleanText(v) ==
    /\ v.t = "string"
    /\ Len(v.s) > 0
    /\ v.s[1] \notin WhiteSpace
    /\ v.s[Len(v.s)] \notin WhiteSpace

C2_StoreHoldsValidRecords ==
    \A i \in 1..Len(products) :
        LET p == products[i]
        IN /\ CleanText(p.name)
           /\ CleanText(p.description)
           /\ CleanText(p.category)
           /\ \A k \in 1..Len(p.category.s), m \in 1..26 : p.category.s[k] # UpperChars[m]
           /\ p.price.t = "number" /\ p.price.n >= 0
           /\ p.inStock.t = "boolean"

\* A record created from a body padded with white space, and a seed record
\* overwritten by an update, are both in the store.
C2_Witness ==
    /\ \E i \in 1..Len(products) :
          /\ products[i].id = Uuid(1)
          /\ products[i].category = JStr(<<"o","f","f","i","c","e">>)
    /\ \E i \in 1..Len(products) :
          /\ products[i].id = "2"
          /\ products[i].description = JStr(<<"M","u","g">>)

(***************************************************************************)
(* C3.  No two records of the store have the same id; an update leaves     *)
(* every record's id as it was, even when the body carries another id; a   *)
(* create gives the new record an id that is neither in the store nor the  *)
(* id of the request body.                                                 *)
(***************************************************************************)
C3_IdsUniqueAndStable ==
    [][/\ \A i, j \in 1..Len(products') :
             products'[i].id = products'[j].id => i = j
       /\ req'.method = "PUT" => Ids(products') = Ids(products)
       /\ (req'.method = "POST" /\ resp'.status = 201)
             => /\ ~HasId(products, resp'.body.product.id)
                /\ HasId(products', resp'.body.product.id)
                /\ req'.body.id.t = "string"
                      => resp'.body.product.id # StringOf(req'.body.id.s)]_vars

\* An update whose body names the id of another record has succeeded.
C3_Witness ==
    /\ req.method = "PUT"
    /\ resp.status = 200
    /\ req.body.id = JStr(<<"1">>)
    /\ req.path[3] = "2"
    /\ HasId(products, "1")
    /\ HasId(products, Uuid(1))

(***************************************************************************)
(* C4.  The store changes only by a successful create, which appends the   *)
(* new record; a successful update, which replaces the record at the       *)
(* target's position and nothing else; and a successful delete, which      *)
(* removes the target record and nothing else.  Creating a record, then    *)
(* updating it with another price, then getting it returns the new price   *)
(* under the same id at the same position.                                 *)
(***************************************************************************)
CreateUpdateGet(store, count, first, second) ==
    LET post == Request("POST", <<"api", "products">>, GoodKey, NoQuery, TRUE, first)
        created == HandleRequest(store, count, post)
        id == created.resp.body.product.id
        put == Request("PUT", <<"api", "products", id>>, GoodKey, NoQuery, TRUE, second)
        updated == HandleRequest(created.products, created.uuidCount, put)
        get == Request("GET", <<"api", "products", id>>, JUndef, NoQuery, TRUE, NoBody)
        got == HandleRequest(updated.products, updated.uuidCount, get)
    IN /\ created.resp.status = 201
       /\ updated.resp.status = 200
       /\ got.resp.status = 200
       /\ got.resp.body.price = second.price
       /\ got.resp.body.id = id
       /\ Len(updated.products) = Len(store) + 1
       /\ updated.products[Len(store) + 1] = got.resp.body
       /\ Ids(updated.products) = Ids(created.products)

C4_OrderPreserved ==
    [][/\ IF req'.method = "POST" /\ resp'.status = 201
          THEN products' = Append(products, resp'.body.product)
          ELSE IF req'.method = "PUT" /\ resp'.status = 200
          THEN /\ Len(products') = Len(products)
               /\ \E i \in 1..Len(products) :
                     /\ products[i].id = req'.path[3]
                     /\ products'[i] = resp'.body.product
                     /\ products'[i].id = req'.path[3]
                     /\ \A j \in 1..Len(products) : j # i => products'[j] = products[j]
          ELSE IF req'.method = "DELETE" /\ resp'.status = 200
          THEN \E i \in 1..Len(products) :
                  /\ products[i].id = req'.path[3]
                  /\ products[i] = resp'.body.product
                  /\ products' = SubSeq(products, 1, i - 1)
                                    \o SubSeq(products, i + 1, Len(products))
          ELSE products' = products
       /\ req = NoRequest =>
             CreateUpdateGet(products, uuidCount, PenBody, CupBody)]_vars

\* A record that is neither first nor last has been updated in place.
C4_Witness ==
    /\ req.method = "PUT"
    /\ resp.status = 200
    /\ Len(products) >= 3
    /\ products[2] = resp.body.product
    /\ products[2].price = JNum(7)

(***************************************************************************)
(* C5.  For every List request, page and limit fall back to 1 and 10 when  *)
(* the value is absent or invalid, the returned products are exactly the   *)
(* records of the filtered sequence at the 0-based positions i with        *)
(* (page-1)*limit <= i < page*limit (so at most limit records), and the    *)
(* response reports totalProducts = filteredCount and                      *)
(* totalPages = ceil(filteredCount / limit).                               *)
(***************************************************************************)
\* The records of seq at the 0-based positions lo <= i < hi
Positions(seq, lo, hi) ==
    SubSeq(seq, (IF lo > 0 THEN lo ELSE 0) + 1, IF hi < Len(seq) THEN hi ELSE Len(seq))

\* pages = ceil(count / limit), for limit # 0
IsCeil(pages, count, limit) ==
    IF limit > 0
    THEN pages * limit >= count /\ (pages - 1) * limit < count
    ELSE pages * limit <= count /\ (pages - 1) * limit > count

\* The query value holds no integer at all
NotANumber(v) ==
    v.t # "string" \/ \A i \in 1..Len(v.s) : ~IsDigit(v.s[i])

C5_Pagination ==
    (req.method = "GET" /\ req.path = <<"api", "products">>)
        => LET filtered == InStockFilter(CategoryFilter(products, req.query), req.query)
               page == resp.body.pagination.currentPage
               limit == resp.body.pagination.productsPerPage
           IN /\ resp.status = 200
              /\ NotANumber(req.query.page) => page = 1
              /\ NotANumber(req.query.limit) => limit = 10
              /\ resp.body.products = Positions(filtered, (page - 1) * limit, page * limit)
              /\ Len(resp.body.products) <= limit
              /\ resp.body.pagination.totalProducts = Len(filtered)
              /\ IsCeil(resp.body.pagination.totalPages, Len(filtered), limit)

(***************************************************************************)
(* C6.  On an authenticated POST or PUT the five field rules are evaluated *)
(* independently: the request is rejected with 400 ValidationError exactly *)
(* when at least one rule is violated, the message then holds one entry    *)
(* for every violated rule and none for a satisfied rule, and a body that  *)
(* violates no rule reaches the handler.                                   *)
(***************************************************************************)
C6_AllViolationsReported ==
    (req.method \in {"POST", "PUT"} /\ OnMutatingRoute(req) /\ req.jsonOk
        /\ ~BadCredential(req))
        => LET bad == Violated(req.body)
               msg == resp.body.message
           IN IF bad = {}
              THEN \/ resp.status = 201 /\ req.method = "POST"
                   \/ resp.status = 200 /\ req.method = "PUT"
                   \/ IsError(resp, 404, "NotFoundError") /\ req.method = "PUT"
              ELSE /\ IsError(resp, 400, "ValidationError")
                   /\ Len(msg) = 2 * Cardinality(bad) - 1
                   /\ \A i \in 1..Len(msg) : i % 2 = 0 => msg[i] = ", "
                   /\ {msg[i] : i \in {k \in 1..Len(msg) : k % 2 = 1}}
                         = {RuleMessage(f) : f \in bad}

\* A create whose body breaks three of the five rules has been rejected.
C6_Witness ==
    /\ req.method = "POST"
    /\ ~BadCredential(req)
    /\ Violated(req.body) = {"name", "price", "inStock"}
    /\ resp.status = 400
    /\ Len(resp.body.message) = 5

(***************************************************************************)
(* C7.  A mutating request is answered with the error of the first stage   *)
(* that fails, in the order access control, validation (POST and PUT),     *)
(* locate by id (PUT and DELETE): 401 on a wrong credential whatever the   *)
(* body and id; with the right credential 400 on an invalid body whatever  *)
(* the id; with the right credential and, for PUT, a valid body, 404       *)
(* NotFoundError on an id that is not in the store.  The store is          *)
(* unchanged in each of these outcomes.                                    *)
(***************************************************************************)
C7_FirstFailingStage ==
    [][(Mutating(req') /\ OnMutatingRoute(req') /\ req'.jsonOk)
          => IF BadCredential(req')
             THEN IsError(resp', 401, "AuthenticationError") /\ products' = products
             ELSE IF req'.method \in {"POST", "PUT"} /\ Violated(req'.body) # {}
             THEN IsError(resp', 400, "ValidationError") /\ products' = products
             ELSE IF req'.method \in {"PUT", "DELETE"} /\ ~HasId(products, req'.path[3])
             THEN IsError(resp', 404, "NotFoundError") /\ products' = products
             ELSE resp'.status \in {200, 201}]_vars

\* An update of an absent id with an invalid body and the right credential
\* has been answered by the validation stage.
C7_Witness ==
    /\ req.method = "PUT"
    /\ OnMutatingRoute(req)
    /\ ~BadCredential(req)
    /\ ~HasId(products, req.path[3])
    /\ Violated(req.body) # {}
    /\ resp.status = 400

(***************************************************************************)
(* C8.  A create with the right credential and a valid body answers 201    *)
(* with a record whose name and description are the trimmed input, whose   *)
(* category is the trimmed and lower-cased input, whose price and inStock  *)
(* are the input, and whose id is generated; the store grows by exactly    *)
(* one record, and a GET of the returned id then returns that record.      *)
(***************************************************************************)
C8_CreateThenGet ==
    [][(req'.method = "POST" /\ req'.path = <<"api", "products">> /\ req'.jsonOk
          /\ ~BadCredential(req') /\ Violated(req'.body) = {})
          => LET made == resp'.body.product
                 get == Request("GET", <<"api", "products", made.id>>, JUndef,
                                NoQuery, TRUE, NoBody)
             IN /\ resp'.status = 201
                /\ made.name.t = "string" /\ IsTrimOf(made.name.s, req'.body.name.s)
                /\ made.description.t = "string"
                /\ IsTrimOf(made.description.s, req'.body.description.s)
                /\ made.category.t = "string"
                /\ \E t \in {Trim(req'.body.category.s)} :
                      /\ IsTrimOf(t, req'.body.category.s)
                      /\ IsLowerOf(made.category.s, t)
                /\ made.price = req'.body.price
                /\ made.inStock = req'.body.inStock
                /\ made.id = Uuid(uuidCount')
                /\ ~HasId(products, made.id)
                /\ Len(products') = Len(products) + 1
                /\ HandleRequest(products', uuidCount', get).resp
                      = [status |-> 200, body |-> made]]_vars

\* A record has been created from a body padded with white space.
C8_Witness ==
    /\ req.method = "POST"
    /\ resp.status = 201
    /\ req.body = PenBody
    /\ resp.body.product.name = JStr(<<"P","e","n">>)
    /\ resp.body.product.category = JStr(<<"o","f","f","i","c","e">>)
    /\ Len(products) >= 3

(***************************************************************************)
(* C9.  Stats is computed over the whole store: totalProducts is the       *)
(* store's length, inStockCount and outOfStockCount count the records with *)
(* inStock true and false, categoryCounts maps every stored category, and  *)
(* nothing else, to its number of records, priceRange is the least and the *)
(* greatest stored price, and averagePrice and priceRange are 0 and        *)
(* {min: 0, max: 0} on the empty store.                                    *)
(***************************************************************************)
CountWhere(store, Test(_)) == Cardinality({i \in 1..Len(store) : Test(store[i])})

C9_Stats ==
    (req.method = "GET" /\ req.path = <<"api", "products", "stats">>)
        => LET stats == resp.body
               prices == {products[i].price.n : i \in 1..Len(products)}
               categories == {products[i].category.s : i \in 1..Len(products)}
           IN /\ resp.status = 200
              /\ stats.totalProducts = Len(products)
              /\ stats.inStockCount = CountWhere(products, LAMBDA p : p.inStock = JBool(TRUE))
              /\ stats.outOfStockCount
                    = CountWhere(products, LAMBDA p : p.inStock = JBool(FALSE))
              /\ stats.inStockCount + stats.outOfStockCount = stats.totalProducts
              /\ DOMAIN stats.categoryCounts = categories
              /\ \A c \in categories :
                    stats.categoryCounts[c]
                        = JNum(CountWhere(products, LAMBDA p : p.category.s = c))
              /\ IF products = <<>>
                 THEN stats.averagePrice = 0 /\ stats.priceRange = [min |-> 0, max |-> 0]
                 ELSE /\ stats.priceRange.min \in prices
                      /\ stats.priceRange.max \in prices
                      /\ \A x \in prices :
                            stats.priceRange.min <= x /\ x <= stats.priceRange.max

(***************************************************************************)
(* C10.  Every request other than a successful create or delete is         *)
(* idempotent: a GET leaves the store as it was and is never answered 401  *)
(* whatever credential it carries, and repeating a request at once gives   *)
(* the same response and the same store, an authenticated valid PUT        *)
(* included.  Repeating a successful create adds a second record under     *)
(* another id; repeating a successful delete is answered 404.              *)
(***************************************************************************)
C10_Idempotence ==
    [][req' # NoRequest
          => LET again == HandleRequest(products', uuidCount', req')
             IN /\ req'.method = "GET" => products' = products /\ resp'.status # 401
                /\ IF req'.method = "POST" /\ resp'.status = 201
                   THEN /\ again.resp.status = 201
                        /\ again.resp.body.product.id # resp'.body.product.id
                        /\ again.products = Append(products', again.resp.body.product)
                   ELSE IF req'.method = "DELETE" /\ resp'.status = 200
                   THEN /\ IsError(again.resp, 404, "NotFoundError")
                        /\ again.products = products'
                   ELSE /\ again.resp = resp'
                        /\ again.products = products']_vars

\* An authenticated valid update of a stored record has been served, and
\* serving it again changes neither the response nor the store.
C10_Witness ==
    /\ req.method = "PUT"
    /\ resp.status = 200
    /\ resp.body.product.price = JNum(0)
    /\ HandleRequest(products, uuidCount, req).resp = resp
    /\ HandleRequest(products, uuidCount, req).products = products

====
